---- MODULE Spec2Model ----
(***************************************************************************)
(* A model of perf-test (src/main.go): the orchestrator main, the CPU      *)
(* workers benchmarkPrimality sharing one CPUStats record, and the         *)
(* memory/disk worker memoryAndFilesystemBenchmark / filesystemBenchmark.  *)
(* Time is a discrete wall clock `now` in report-interval units (seconds). *)
(***************************************************************************)
EXTENDS Integers, Sequences, FiniteSets, TLC

\* ------------------------------------------------------------- bounds
MaxTime == 2
MaxIter == 2
MaxDiskIter == 2
MaxTarget == 2
MaxPrimeRange == 4
MaxCandidate == 30

\* ------------------------------------------------------------- program constants
\* time.Sleep(2 * time.Second)
GracePeriod == 2
\* iteration%5 == 0
ReportEvery == 5

VARIABLES
    config,      \* the parsed Config (main resolves cpuThreads once, before the workers start)
    now,         \* the wall clock
    mainPc,      \* position of main
    sigChan,     \* notifications buffered in sigChan (capacity 1)
    stopChan,    \* "open" or "closed"
    wakeAt,      \* when main's time.Sleep ends
    cpuStats,    \* the shared CPUStats
    cpu,         \* per CPU worker: position and loop-local variables
    mem,         \* the memory/disk worker: position and local variables
    tempFile,    \* the scratch file and its handle
    out          \* what has been observed of the run (history)

vars == <<config, now, mainPc, sigChan, stopChan, wakeAt, cpuStats, cpu, mem, tempFile, out>>

\* the identities benchmarkPrimality is started with: threadID 0, 1
Workers == {0, 1}
NoHolder == -1

Min(a, b) == IF a < b THEN a ELSE b

\* ------------------------------------------------------------- isPrime
RECURSIVE isPrimeLoop(_, _)
isPrimeLoop(n, i) ==
    IF i * i <= n
    THEN IF n % i = 0 THEN FALSE ELSE isPrimeLoop(n, i + 2)
    ELSE TRUE

\* a test that takes every odd number from 3 on for a prime
OddOrTwo(n) == n = 2 \/ (n > 2 /\ n % 2 = 1)

isPrime(n) ==
    IF n < 2 THEN FALSE
    ELSE IF n = 2 THEN TRUE
    ELSE IF n % 2 = 0 THEN FALSE
    ELSE isPrimeLoop(n, 3)

\* for i := 2; i < config.primeRange; i++ { if isPrime(i) { primeCount++ } }
RECURSIVE PrimePass(_, _)
PrimePass(i, primeRange) ==
    IF i < primeRange
    THEN (IF isPrime(i) THEN 1 ELSE 0) + PrimePass(i + 1, primeRange)
    ELSE 0

\* ------------------------------------------------------------- configuration
\* a float64 flag value: not-a-number, or a number given in hundredths
NaN == [ nan |-> TRUE, val |-> 0 ]
Frac(h) == [ nan |-> FALSE, val |-> h ]

\* the values of -memory-percent tried: NaN, -0.5, 0, 0.09, 0.1, 0.5, 0.95, 0.96, 1.5
Fractions == {NaN} \cup { Frac(h) : h \in {-50, 0, 9, 10, 50, 95, 96, 150} }

\* the values of runtime.NumCPU() tried
Cores == 1 .. (Cardinality(Workers) + 1)

\* a < b and a > b on float64: every comparison with NaN is false
FloatLess(a, b) == ~a.nan /\ ~b.nan /\ a.val < b.val
FloatGreater(a, b) == ~a.nan /\ ~b.nan /\ a.val > b.val

\* the Config left by flag.Parse; targetMemory stands for what
\* getAvailableMemory(config) * memoryPercent comes to, in chunk units
Configs ==
    [ full : BOOLEAN,
      disableCPU : BOOLEAN,
      disableDisk : BOOLEAN,
      cpuThreads : 0 .. Cardinality(Workers),
      cpuCores : Cores,
      memoryPercent : Fractions,
      reportInterval : {1, 2},
      primeRange : {MaxPrimeRange},
      chunkSize : {1, 2},
      targetMemory : 0 .. MaxTarget ]

\* if config.memoryPercent < 0.1 || config.memoryPercent > 0.95 { ...; os.Exit(1) }
Rejected(memoryPercent) ==
    FloatLess(memoryPercent, Frac(10)) \/ FloatGreater(memoryPercent, Frac(95))

\* every core as a worker
AllCores(cpuCores) == cpuCores

\* config.cpuThreads = cpuCores - 1; if config.cpuThreads < 1 { config.cpuThreads = 1 }
DefaultThreads(cpuCores) == IF cpuCores - 1 < 1 THEN 1 ELSE cpuCores - 1

\* if config.cpuThreads == 0 { ... }
ResolvedThreads(cfg) == IF cfg.cpuThreads = 0 THEN DefaultThreads(cfg.cpuCores) ELSE cfg.cpuThreads

\* if !config.disableCPU { for i := 0; i < config.cpuThreads; i++ { go ... (i) } }
CpuLaunched(w) == ~config.disableCPU /\ w < config.cpuThreads

\* a disk goroutine started whatever the flag
DiskLaunchedAlways == TRUE

\* if !config.disableDisk { go ... }
DiskLaunched == ~config.disableDisk

\* time.Duration(config.reportInterval)*time.Second
Interval == config.reportInterval

\* the time left until t
Until(t) == t - now

\* time.Since(t)
Since(t) == now - t

\* the process is alive until main returns or os.Exit is called
Alive == mainPc \notin {"stopped", "exited"}

\* a loop that never looks at stopChan
StopIgnored == FALSE

\* case <-stopChan: is ready exactly when the channel is closed
StopObserved == stopChan = "closed"

\* ------------------------------------------------------------- initial state
\* a float64 quotient num/den, kept as the pair (den = 0 is +Inf or NaN)
NoRate == [ num |-> 0, den |-> 0 ]

CpuLocal0 ==
    [ pc |-> "off", iteration |-> 0, lastReport |-> 0, totalTime |-> 0,
      start |-> 0, primeCount |-> 0, duration |-> 0, rate |-> NoRate ]

MemLocal0 ==
    [ pc |-> "off", allocated |-> 0, memoryChunks |-> 0,
      iteration |-> 0, lastReport |-> 0, idx |-> 0,
      totalBytesWritten |-> 0, totalBytesRead |-> 0,
      writeSamples |-> 0, readSamples |-> 0 ]

File0 == [ created |-> FALSE, exists |-> FALSE, open |-> FALSE, size |-> 0, pos |-> 0 ]

\* aggReports: the times at which an aggregate report was decided; aggPrinted: the
\* aggregate lines printed; closes: the close(stopChan) calls; closeTime, exitTime:
\* when stopChan was closed and when main returned; closeCalls, removeCalls: the
\* deferred calls run; diskError: the last filesystem error of the disk loop;
\* leftAt: the return statement that ended the disk loop; stopBeforeTarget: the
\* signal was set while allocated < targetMemory; diskEntered: filesystemBenchmark
\* was called; wroteChunk: a chunk has been written to the scratch file; iterFault:
\* a file-system call of the current disk iteration has failed; requested: the
\* value of -cpu-threads before main resolved it; timeFolds, primeFolds: the passes
\* added to cpuStats.totalTime and to cpuStats.totalPrimesFound; lastRate: the rate
\* of the last aggregate line printed; iterBase: the disk iterations completed
\* when the observation begins; diskReported: the disk iteration that ended last
\* printed its report; lockCalls, unlockCalls: the calls of cpuStats.mu.Lock() that
\* have returned and the calls of cpuStats.mu.Unlock()
Out0 ==
    [ aggReports |-> << >>, aggPrinted |-> 0, closes |-> 0, closeTime |-> 0,
      exitTime |-> 0, closeCalls |-> 0, removeCalls |-> 0, diskError |-> "none",
      leftAt |-> "none", stopBeforeTarget |-> FALSE, diskEntered |-> FALSE,
      wroteChunk |-> FALSE, iterFault |-> FALSE, requested |-> 0,
      timeFolds |-> 0, primeFolds |-> 0, lastRate |-> NoRate,
      iterBase |-> 0, diskReported |-> FALSE,
      lockCalls |-> 0, unlockCalls |-> 0 ]

\* cpuStats := &CPUStats{lastReport: time.Now()}
CpuStats0 == [ mu |-> NoHolder, totalPrimesFound |-> 0, totalTime |-> 0, lastReport |-> 0 ]

\* main up to "<-sigChan": the configuration has passed the validation, cpuThreads
\* is resolved, the goroutines are started unless their resource is disabled
Started ==
    /\ ~Rejected(config.memoryPercent)
    /\ config.cpuThreads = ResolvedThreads(config)
    /\ now = 0
    /\ mainPc = "wait"
    /\ sigChan = 0
    /\ stopChan = "open"
    /\ wakeAt = 0
    /\ cpuStats = CpuStats0
    /\ cpu = [ w \in Workers |->
                 IF CpuLaunched(w) THEN [ CpuLocal0 EXCEPT !.pc = "start" ] ELSE CpuLocal0 ]
    /\ mem = IF DiskLaunched THEN [ MemLocal0 EXCEPT !.pc = "start" ] ELSE MemLocal0
    /\ tempFile = File0
    /\ out = Out0

Init == config \in Configs /\ Started

\* the state in which main begins, flag.Parse done: nothing is started
InitMain ==
    /\ config \in Configs
    /\ now = 0
    /\ mainPc = "validate"
    /\ sigChan = 0
    /\ stopChan = "open"
    /\ wakeAt = 0
    /\ cpuStats = CpuStats0
    /\ cpu = [ w \in Workers |-> CpuLocal0 ]
    /\ mem = MemLocal0
    /\ tempFile = File0
    /\ out = Out0

\* ------------------------------------------------------------- main
\* the validation of -memory-percent: Println and os.Exit(1), or go on
Validate ==
    /\ mainPc = "validate"
    /\ mainPc' = IF Rejected(config.memoryPercent) THEN "exited" ELSE "resolve"
    /\ UNCHANGED <<config, now, sigChan, stopChan, wakeAt, cpuStats, cpu, mem, tempFile, out>>

\* cpuCores := runtime.NumCPU(); the defaulting of config.cpuThreads; then
\* signal.Notify, make(chan struct{}) and the CPUStats
ResolveThreads ==
    /\ mainPc = "resolve"
    /\ config' = [ config EXCEPT !.cpuThreads = ResolvedThreads(config) ]
    /\ mainPc' = "launch"
    /\ out' = [ out EXCEPT !.requested = config.cpuThreads ]
    /\ UNCHANGED <<now, sigChan, stopChan, wakeAt, cpuStats, cpu, mem, tempFile>>

\* the two "go func" blocks; main then blocks in <-sigChan
Launch ==
    /\ mainPc = "launch"
    /\ cpu' = [ w \in Workers |->
                  IF CpuLaunched(w) THEN [ CpuLocal0 EXCEPT !.pc = "start" ] ELSE CpuLocal0 ]
    /\ mem' = IF DiskLaunched THEN [ MemLocal0 EXCEPT !.pc = "start" ] ELSE MemLocal0
    /\ mainPc' = "wait"
    /\ UNCHANGED <<config, now, sigChan, stopChan, wakeAt, cpuStats, tempFile, out>>

\* the listener of signal.Notify is installed
Listening == mainPc \in {"launch", "wait", "sleep", "panic"}

\* signal.Notify(sigChan, os.Interrupt, syscall.SIGTERM) on a channel of capacity 1:
\* the runtime's send does not block, a notification that finds the buffer full is dropped
Notify ==
    /\ Alive
    /\ Listening
    /\ sigChan' = Min(1, sigChan + 1)
    /\ UNCHANGED <<config, now, mainPc, stopChan, wakeAt, cpuStats, cpu, mem, tempFile, out>>

\* main receiving from sigChan again after the first notification
MainDrainsAgain == mainPc \in {"wait", "sleep"} /\ sigChan > 0

\* main is blocked in "<-sigChan" and a notification is buffered
MainMayDrain == mainPc = "wait" /\ sigChan > 0

\* <-sigChan; close(stopChan); time.Sleep(2 * time.Second) begins.
\* close of a closed channel panics.
MainDrain ==
    /\ MainMayDrain
    /\ sigChan' = sigChan - 1
    /\ IF stopChan = "closed"
       THEN /\ mainPc' = "panic"
            /\ UNCHANGED <<stopChan, wakeAt>>
       ELSE /\ mainPc' = "sleep"
            /\ stopChan' = "closed"
            /\ wakeAt' = now + GracePeriod
    /\ out' = [ out EXCEPT !.closes = @ + 1,
                           !.closeTime = now,
                           !.stopBeforeTarget =
                               mem.pc \in {"start", "alloc", "append"}
                               /\ mem.allocated < config.targetMemory ]
    /\ UNCHANGED <<config, now, cpuStats, cpu, mem, tempFile>>

\* main joining its goroutines before it returns
SleepOverAndJoined ==
    /\ now >= wakeAt
    /\ \A w \in Workers : cpu[w].pc \in {"off", "returned"}
    /\ mem.pc \in {"off", "returned"}

\* time.Sleep returns once the duration has elapsed; main waits for nothing else
SleepOver == now >= wakeAt

\* main returns: the process ends, whatever the goroutines are doing
MainExit ==
    /\ mainPc = "sleep"
    /\ SleepOver
    /\ mainPc' = "stopped"
    /\ out' = [ out EXCEPT !.exitTime = now ]
    /\ UNCHANGED <<config, now, sigChan, stopChan, wakeAt, cpuStats, cpu, mem, tempFile>>

\* a CPU worker is at a statement that takes no measurable time (everything but
\* the primality pass itself); a worker the model's MaxIter has halted is not
CpuUrgent(w) ==
    /\ cpu[w].pc \in {"start", "select", "lock", "update", "count", "stamp", "print", "unlock",
                     "fullReport"}
    /\ ~(cpu[w].pc = "select" /\ stopChan = "open" /\ cpu[w].iteration >= MaxIter)

\* the memory/disk worker is at a statement that takes no measurable time (the
\* selects and the bookkeeping, not the allocation and the file-system calls)
MemUrgent ==
    /\ mem.pc \in {"start", "alloc", "loopTop", "writeLoop", "readLoop", "foldRead"}
    /\ ~(mem.pc = "loopTop" /\ stopChan = "open" /\ mem.iteration >= out.iterBase + MaxDiskIter)

\* the clock advances by one unit: the sleep timer fires when it is due, a buffered
\* notification is received at once, and only passes, allocations and file-system
\* calls take time
Tick ==
    /\ Alive
    /\ mainPc \notin {"validate", "resolve", "launch"}
    /\ now < MaxTime
    /\ ~(mainPc = "sleep" /\ now >= wakeAt)
    /\ ~MainMayDrain
    /\ \A w \in Workers : ~CpuUrgent(w)
    /\ ~MemUrgent
    /\ now' = now + 1
    /\ UNCHANGED <<config, mainPc, sigChan, stopChan, wakeAt, cpuStats, cpu, mem, tempFile, out>>

\* ------------------------------------------------------------- benchmarkPrimality
CpuFrame == UNCHANGED <<config, now, mainPc, sigChan, stopChan, wakeAt, mem, tempFile>>

\* iteration := 0; lastReport := time.Now(); totalTime := 0
CpuStart(w) ==
    /\ Alive
    /\ cpu[w].pc = "start"
    /\ cpu' = [ cpu EXCEPT ![w].pc = "select", ![w].lastReport = now ]
    /\ UNCHANGED <<cpuStats, out>>
    /\ CpuFrame

\* select { case <-stopChan: return; default: start := time.Now() ... }
CpuSelect(w) ==
    /\ Alive
    /\ cpu[w].pc = "select"
    /\ IF StopObserved
       THEN cpu' = [ cpu EXCEPT ![w] = [ CpuLocal0 EXCEPT !.pc = "returned" ] ]
       ELSE /\ cpu[w].iteration < MaxIter
            /\ cpu' = [ cpu EXCEPT ![w].pc = "pass", ![w].start = now ]
    /\ UNCHANGED <<cpuStats, out>>
    /\ CpuFrame

\* a worker that updates the shared stats in either mode
FoldShared == "lock"

\* if !config.full { cpuStats.mu.Lock() ... } else { the per-worker report }
FoldTarget == IF config.full THEN "fullReport" ELSE "lock"

\* the pass ends: duration := time.Since(start); iteration++; totalTime += duration
CpuPass(w) ==
    /\ Alive
    /\ cpu[w].pc = "pass"
    /\ cpu' = [ cpu EXCEPT ![w].pc = FoldTarget,
                           ![w].primeCount = PrimePass(2, config.primeRange),
                           ![w].duration = Since(cpu[w].start),
                           ![w].iteration = @ + 1,
                           ![w].totalTime = @ + Since(cpu[w].start) ]
    /\ UNCHANGED <<cpuStats, out>>
    /\ CpuFrame

\* a Lock() that excludes no one
LockAlwaysFree == TRUE

\* cpuStats.mu.Lock() returns when no one holds the mutex
LockFree == cpuStats.mu = NoHolder

\* an Unlock() that leaves the mutex with its holder
StillHeld == cpuStats.mu

\* the holder of cpuStats.mu after cpuStats.mu.Unlock()
Released == NoHolder

\* a Lock() that returns without taking the mutex
NoOne(w) == NoHolder

\* the holder of cpuStats.mu once worker w's Lock() has returned
Holder(w) == w

CpuLock(w) ==
    /\ Alive
    /\ cpu[w].pc = "lock"
    /\ LockFree
    /\ cpuStats' = [ cpuStats EXCEPT !.mu = Holder(w) ]
    /\ cpu' = [ cpu EXCEPT ![w].pc = "update" ]
    /\ out' = [ out EXCEPT !.lockCalls = @ + 1 ]
    /\ CpuFrame

\* shouldReport := time.Since(cpuStats.lastReport) >= reportInterval
ShouldReport(lastReport) == Since(lastReport) >= Interval

\* cpuStats.totalTime += duration
CpuUpdate(w) ==
    /\ Alive
    /\ cpu[w].pc = "update"
    /\ cpuStats' = [ cpuStats EXCEPT !.totalTime = @ + cpu[w].duration ]
    /\ cpu' = [ cpu EXCEPT ![w].pc = "count" ]
    /\ out' = [ out EXCEPT !.timeFolds = @ + 1 ]
    /\ CpuFrame

\* cpuStats.totalPrimesFound += primeCount; shouldReport := ...
CpuCount(w) ==
    /\ Alive
    /\ cpu[w].pc = "count"
    /\ cpuStats' = [ cpuStats EXCEPT !.totalPrimesFound = @ + cpu[w].primeCount ]
    /\ IF ShouldReport(cpuStats.lastReport)
       THEN /\ cpu' = [ cpu EXCEPT ![w].pc = "stamp" ]
            /\ out' = [ out EXCEPT !.aggReports = Append(@, now), !.primeFolds = @ + 1 ]
       ELSE /\ cpu' = [ cpu EXCEPT ![w].pc = "unlock" ]
            /\ out' = [ out EXCEPT !.primeFolds = @ + 1 ]
    /\ CpuFrame

\* the timestamp the reporting worker leaves in cpuStats.lastReport: time.Now()
Stamp == now

\* the number of workers that have completed a pass so far
Contributors == Cardinality({ w \in Workers : cpu[w].iteration > 0 })

\* float64(config.cpuThreads)
ThreadFactor == config.cpuThreads

\* avgPrimesPerSec := float64(cpuStats.totalPrimesFound) / cpuStats.totalTime.Seconds()
\* totalPrimesPerSec := avgPrimesPerSec * float64(config.cpuThreads)
TotalPrimesPerSec ==
    [ num |-> cpuStats.totalPrimesFound * ThreadFactor, den |-> cpuStats.totalTime ]

\* the rate is computed; cpuStats.lastReport = time.Now(); cpuStats.mu.Unlock()
CpuStamp(w) ==
    /\ Alive
    /\ cpu[w].pc = "stamp"
    /\ cpuStats' = [ cpuStats EXCEPT !.lastReport = Stamp, !.mu = Released ]
    /\ cpu' = [ cpu EXCEPT ![w].pc = "print", ![w].rate = TotalPrimesPerSec ]
    /\ out' = [ out EXCEPT !.unlockCalls = @ + 1 ]
    /\ CpuFrame

\* fmt.Printf("CPU: %s total primes/sec\n", ...)
CpuPrint(w) ==
    /\ Alive
    /\ cpu[w].pc = "print"
    /\ out' = [ out EXCEPT !.aggPrinted = @ + 1, !.lastRate = cpu[w].rate ]
    /\ cpu' = [ cpu EXCEPT ![w].pc = "select", ![w].start = 0, ![w].primeCount = 0, ![w].duration = 0,
                           ![w].rate = NoRate ]
    /\ UNCHANGED cpuStats
    /\ CpuFrame

\* } else { cpuStats.mu.Unlock() }
CpuUnlock(w) ==
    /\ Alive
    /\ cpu[w].pc = "unlock"
    /\ cpuStats' = [ cpuStats EXCEPT !.mu = Released ]
    /\ cpu' = [ cpu EXCEPT ![w].pc = "select", ![w].start = 0, ![w].primeCount = 0, ![w].duration = 0 ]
    /\ out' = [ out EXCEPT !.unlockCalls = @ + 1 ]
    /\ CpuFrame

\* full mode: if time.Since(lastReport) >= reportInterval { Printf(...); lastReport = time.Now() }
CpuFullReport(w) ==
    /\ Alive
    /\ cpu[w].pc = "fullReport"
    /\ cpu' = [ cpu EXCEPT ![w].pc = "select", ![w].start = 0, ![w].primeCount = 0, ![w].duration = 0,
                           ![w].lastReport = IF ShouldReport(cpu[w].lastReport) THEN now ELSE @ ]
    /\ UNCHANGED <<cpuStats, out>>
    /\ CpuFrame

CpuStep(w) ==
    \/ CpuStart(w)
    \/ CpuSelect(w)
    \/ CpuPass(w)
    \/ CpuLock(w)
    \/ CpuUpdate(w)
    \/ CpuCount(w)
    \/ CpuStamp(w)
    \/ CpuPrint(w)
    \/ CpuUnlock(w)
    \/ CpuFullReport(w)

\* ------------------------------------------------------------- memoryAndFilesystemBenchmark
MemFrame == UNCHANGED <<config, now, mainPc, sigChan, stopChan, wakeAt, cpuStats, cpu>>

\* leaving the allocation loop only, and going on to the disk loop
AllocBreaks == "fsStart"

\* the pc after the "return" that answers the signal in the allocation loop
AllocCancelled == "returned"

\* targetMemory := int64(float64(getAvailableMemory(config)) * config.memoryPercent)
targetMemory == config.targetMemory

\* var memoryChunks [][]byte; chunkSize := ...; allocated := int64(0)
MemStart ==
    /\ Alive
    /\ mem.pc = "start"
    /\ mem' = [ mem EXCEPT !.pc = "alloc" ]
    /\ UNCHANGED <<tempFile, out>>
    /\ MemFrame

\* a loop that goes on while allocated <= targetMemory
TargetExceeded == mem.allocated > targetMemory

\* the allocation loop ends: not (allocated < targetMemory)
TargetReached == mem.allocated >= targetMemory

\* for allocated < targetMemory { select { case <-stopChan: return; default: ... } }
\* and, the loop over, filesystemBenchmark(memoryChunks, stopChan, config)
MemAlloc ==
    /\ Alive
    /\ mem.pc = "alloc"
    /\ IF ~TargetReached
       THEN /\ mem' = [ mem EXCEPT !.pc = IF StopObserved THEN AllocCancelled ELSE "append" ]
            /\ UNCHANGED out
       ELSE /\ mem' = [ mem EXCEPT !.pc = "fsStart" ]
            /\ out' = [ out EXCEPT !.diskEntered = TRUE ]
    /\ UNCHANGED tempFile
    /\ MemFrame

\* chunk := make([]byte, chunkSize); fill; memoryChunks = append(memoryChunks, chunk); allocated += chunkSize
MemAppend ==
    /\ Alive
    /\ mem.pc = "append"
    /\ mem' = [ mem EXCEPT !.pc = "alloc",
                           !.memoryChunks = @ + 1,
                           !.allocated = @ + config.chunkSize ]
    /\ UNCHANGED <<tempFile, out>>
    /\ MemFrame

\* ------------------------------------------------------------- filesystemBenchmark
\* a return that skips the clean-up on the random-fill failure
ReturnLeaks(where) == IF where = "fill" THEN "returned" ELSE "deferred"

\* a return statement of the loop, reached at `where`: the deferred calls run
ReturnFrom(where) == "deferred"

\* a filesystem error logged with a call that ends the process
FatalError(res) == IF res = "ok" THEN mainPc ELSE "stopped"

\* what a logged filesystem error does to the process: fmt.Printf and return, main goes on
LoggedError(res) == mainPc

FsFrame == UNCHANGED <<config, now, sigChan, stopChan, wakeAt, cpuStats, cpu>>

\* a Seek that leaves the offset where it is
SeekNowhere == tempFile.pos

\* the offset after tempFile.Seek(0, 0)
SeekStart == 0

\* the "break" after a failed tempFile.Write ends the select statement: the range
\* loop goes on with the next chunk
AfterWriteError == "writeLoop"

\* a plain "break", which ends the select statement and not the read loop
PlainBreak == "read"

\* "break readLoop", also after a failed tempFile.Read
AfterReadLoop == "foldRead"

\* if len(memoryChunks) == 0 { return }; tempFile, err := os.CreateTemp(...); if err != nil { return }
\* defer os.Remove; defer tempFile.Close; iteration := 0; lastReport := time.Now()
FsStart ==
    /\ Alive
    /\ mem.pc = "fsStart"
    /\ \E ok \in BOOLEAN :
         IF mem.memoryChunks > 0 /\ ok
         THEN /\ tempFile' = [ created |-> TRUE, exists |-> TRUE, open |-> TRUE, size |-> 0, pos |-> 0 ]
              /\ mem' = [ mem EXCEPT !.pc = "loopTop", !.iteration = 0, !.lastReport = now ]
         ELSE /\ mem' = [ MemLocal0 EXCEPT !.pc = "returned" ]
              /\ UNCHANGED tempFile
    /\ UNCHANGED out
    /\ MemFrame

\* for { select { case <-stopChan: return; default: iteration++ ... } }
FsLoopTop ==
    /\ Alive
    /\ mem.pc = "loopTop"
    /\ IF StopObserved
       THEN /\ mem' = [ mem EXCEPT !.pc = ReturnFrom("loopTop") ]
            /\ out' = [ out EXCEPT !.leftAt = "loopTop" ]
       ELSE /\ mem.iteration < out.iterBase + MaxDiskIter
            /\ mem' = [ mem EXCEPT !.pc = "rewind", !.iteration = @ + 1 ]
            /\ out' = [ out EXCEPT !.iterFault = FALSE ]
    /\ UNCHANGED tempFile
    /\ MemFrame

\* _, err := tempFile.Seek(0, 0); if err != nil { return }
\* err = tempFile.Truncate(0); if err != nil { return }; totalBytesWritten := 0
FsRewind ==
    /\ Alive
    /\ mem.pc = "rewind"
    /\ \E res \in {"ok", "seek", "truncate"} :
         IF res = "ok"
         THEN /\ tempFile' = [ tempFile EXCEPT !.pos = SeekStart, !.size = 0 ]
              /\ mem' = [ mem EXCEPT !.pc = "writeLoop", !.idx = 0, !.totalBytesWritten = 0 ]
              /\ UNCHANGED <<out, mainPc>>
         ELSE /\ tempFile' = IF res = "truncate" THEN [ tempFile EXCEPT !.pos = SeekStart ] ELSE tempFile
              /\ mem' = [ mem EXCEPT !.pc = ReturnFrom(res) ]
              /\ out' = [ out EXCEPT !.diskError = res, !.leftAt = res, !.iterFault = TRUE ]
              /\ mainPc' = LoggedError(res)
    /\ FsFrame

\* a read phase begun right after the last write
ReadUnsynced == "readLoop"

\* the range loop is over: err = tempFile.Sync() comes next
AfterWrites == "sync"

\* for _, chunk := range memoryChunks { select { case <-stopChan: return; default: ... } }
FsWriteLoop ==
    /\ Alive
    /\ mem.pc = "writeLoop"
    /\ mem' = [ mem EXCEPT !.pc = IF mem.idx < mem.memoryChunks
                                  THEN IF StopObserved THEN ReturnFrom("writeLoop") ELSE "write"
                                  ELSE AfterWrites ]
    /\ out' = IF mem.idx < mem.memoryChunks /\ StopObserved
              THEN [ out EXCEPT !.leftAt = "writeLoop" ] ELSE out
    /\ UNCHANGED tempFile
    /\ MemFrame

\* _, err := rand.Read(chunk); if err != nil { return }
\* n, err := tempFile.Write(chunk); if err != nil { Printf; break }; totalBytesWritten += int64(n)
\* (a failed Write has written n < len(chunk) bytes)
FsWrite ==
    /\ Alive
    /\ mem.pc = "write"
    /\ \/ /\ mem' = [ mem EXCEPT !.pc = ReturnFrom("fill") ]
          /\ out' = [ out EXCEPT !.leftAt = "fill" ]
          /\ UNCHANGED <<tempFile, mainPc>>
       \/ \E n \in 0 .. config.chunkSize :
            /\ tempFile' = [ tempFile EXCEPT !.pos = @ + n,
                                             !.size = IF tempFile.pos + n > @ THEN tempFile.pos + n ELSE @ ]
            /\ IF n = config.chunkSize
               THEN /\ mem' = [ mem EXCEPT !.pc = "writeLoop", !.idx = @ + 1,
                                           !.totalBytesWritten = @ + n ]
                    /\ out' = [ out EXCEPT !.wroteChunk = TRUE ]
               ELSE /\ mem' = [ mem EXCEPT !.pc = AfterWriteError, !.idx = @ + 1 ]
                    /\ out' = [ out EXCEPT !.diskError = "write", !.iterFault = TRUE ]
            /\ mainPc' = LoggedError(IF n = config.chunkSize THEN "ok" ELSE "write")
    /\ FsFrame

\* err = tempFile.Sync(); if err != nil { return }; writeMBps := ...; totalWriteMBps += writeMBps
\* _, err = tempFile.Seek(0, 0); if err != nil { return }; totalBytesRead := 0
FsSync ==
    /\ Alive
    /\ mem.pc = "sync"
    /\ \E res \in {"ok", "sync", "seek"} :
         /\ mem' = [ mem EXCEPT !.pc = IF res = "ok" THEN "readLoop" ELSE ReturnFrom(res),
                                !.writeSamples = IF res = "sync" THEN @ ELSE @ + 1,
                                !.totalBytesRead = 0 ]
         /\ tempFile' = IF res = "ok" THEN [ tempFile EXCEPT !.pos = SeekStart ] ELSE tempFile
         /\ out' = IF res = "ok" THEN out
                   ELSE [ out EXCEPT !.diskError = res, !.leftAt = res, !.iterFault = TRUE ]
         /\ mainPc' = LoggedError(res)
    /\ FsFrame

\* readLoop: for { select { case <-stopChan: break readLoop; default: ... } }
FsReadLoop ==
    /\ Alive
    /\ mem.pc = "readLoop"
    /\ mem' = [ mem EXCEPT !.pc = IF StopObserved THEN AfterReadLoop ELSE "read" ]
    /\ UNCHANGED <<tempFile, out>>
    /\ MemFrame

\* n, err := tempFile.Read(buffer); if n == 0 { break readLoop }
\* if err != nil && err.Error() != "EOF" { Printf; break readLoop }; totalBytesRead += int64(n)
\* (a failed Read has read n <= the bytes left, an end-of-file Read none)
FsRead ==
    /\ Alive
    /\ mem.pc = "read"
    /\ \E failed \in BOOLEAN, n \in 0 .. Min(config.chunkSize, tempFile.size - tempFile.pos) :
         /\ failed \/ n = Min(config.chunkSize, tempFile.size - tempFile.pos)
         /\ tempFile' = [ tempFile EXCEPT !.pos = @ + n ]
         /\ mem' = IF n = 0 \/ failed
                   THEN [ mem EXCEPT !.pc = AfterReadLoop ]
                   ELSE [ mem EXCEPT !.pc = "readLoop", !.totalBytesRead = @ + n ]
         /\ out' = [ out EXCEPT !.diskError = IF failed /\ n > 0 THEN "read" ELSE @,
                                !.iterFault = @ \/ failed ]
         /\ mainPc' = LoggedError(IF failed /\ n > 0 THEN "read" ELSE "ok")
    /\ FsFrame

\* readMBps := ...; totalReadMBps += readMBps
\* if time.Since(lastReport) >= reportInterval || iteration%5 == 0 { Printf; lastReport = time.Now() }
\* a report on the interval alone
ReportOnInterval == ShouldReport(mem.lastReport)

\* time.Since(lastReport) >= reportInterval || iteration%5 == 0
ReportDue == ShouldReport(mem.lastReport) \/ mem.iteration % ReportEvery = 0

FsFoldRead ==
    /\ Alive
    /\ mem.pc = "foldRead"
    /\ mem' = [ mem EXCEPT !.pc = "loopTop", !.readSamples = @ + 1,
                           !.lastReport = IF ReportDue THEN now ELSE @ ]
    /\ out' = [ out EXCEPT !.diskReported = ReportDue ]
    /\ UNCHANGED tempFile
    /\ MemFrame

\* the deferred calls, last registered first: tempFile.Close(), then os.Remove(name)
FsDeferred ==
    /\ Alive
    /\ mem.pc = "deferred"
    /\ tempFile' = [ File0 EXCEPT !.created = TRUE ]
    /\ mem' = [ MemLocal0 EXCEPT !.pc = "returned" ]
    /\ out' = [ out EXCEPT !.closeCalls = @ + 1, !.removeCalls = @ + 1 ]
    /\ MemFrame

MemStep ==
    \/ MemStart
    \/ MemAlloc
    \/ MemAppend
    \/ FsStart
    \/ FsLoopTop
    \/ FsRewind
    \/ FsWriteLoop
    \/ FsWrite
    \/ FsSync
    \/ FsReadLoop
    \/ FsRead
    \/ FsFoldRead
    \/ FsDeferred

\* ------------------------------------------------------------- specifications
Next ==
    \/ Notify
    \/ MainDrain
    \/ MainExit
    \/ Tick
    \/ \E w \in Workers : CpuStep(w)
    \/ MemStep

\* the whole program: one CPU worker and the memory/disk worker, in either mode
InitAll ==
    /\ Init
    /\ ~config.disableCPU /\ ~config.disableDisk
    /\ config.cpuThreads = 1 /\ config.reportInterval = 1
    /\ config.chunkSize = 1 /\ config.targetMemory = 1
    /\ config.cpuCores = 2 /\ config.memoryPercent = Frac(50)

Spec == InitAll /\ [][Next]_vars

\* the run with -disable-disk: main and the CPU workers
InitCpu ==
    /\ Init
    /\ config.disableDisk /\ ~config.disableCPU
    /\ config.chunkSize = 1 /\ config.targetMemory = 1
    /\ config.cpuCores = 2 /\ config.memoryPercent = Frac(50)

NextCpu ==
    \/ Notify
    \/ MainDrain
    \/ MainExit
    \/ Tick
    \/ \E w \in Workers : CpuStep(w)

SpecCpu == InitCpu /\ [][NextCpu]_vars

\* the run with -disable-cpu: main and the memory/disk worker
InitDisk ==
    /\ Init
    /\ ~config.full /\ config.disableCPU /\ ~config.disableDisk /\ config.cpuThreads = 1
    /\ config.cpuCores = 2 /\ config.memoryPercent = Frac(50)

NextDisk ==
    \/ Notify
    \/ MainDrain
    \/ MainExit
    \/ Tick
    \/ MemStep

SpecDisk == InitDisk /\ [][NextDisk]_vars

\* the Go scheduler runs every runnable goroutine: each worker takes its next step
FairSpecCpu == SpecCpu /\ \A w \in Workers : WF_vars(CpuStep(w))

FairSpecDisk == SpecDisk /\ WF_vars(MemStep)

\* main from its first statement, every combination of -disable-cpu and
\* -disable-disk, detailed output only without the disk worker
InitFlags ==
    /\ InitMain
    /\ config.full => config.disableDisk
    /\ config.cpuThreads = 1 /\ config.reportInterval = 1
    /\ config.chunkSize = 1 /\ config.targetMemory = 1
    /\ config.cpuCores = 2 /\ config.memoryPercent = Frac(50)

NextMain ==
    \/ Validate
    \/ ResolveThreads
    \/ Launch
    \/ Next

SpecFlags == InitFlags /\ [][NextMain]_vars

\* main from its first statement with -disable-disk: every -memory-percent with
\* one worker requested, and every -cpu-threads and core count with -memory-percent 0.5
InitStart ==
    /\ InitMain
    /\ config.disableDisk /\ ~config.disableCPU
    /\ config.memoryPercent = Frac(50) \/ (config.cpuThreads = 1 /\ config.cpuCores = 2)
    /\ config.reportInterval = 1 /\ config.chunkSize = 1 /\ config.targetMemory = 1

NextStart ==
    \/ Validate
    \/ ResolveThreads
    \/ Launch
    \/ NextCpu

SpecStart == InitStart /\ [][NextStart]_vars

\* one CPU worker with -disable-disk, every -prime-range from -2 to MaxCandidate
PrimeConfigs ==
    [ full : BOOLEAN,
      disableCPU : {FALSE},
      disableDisk : {TRUE},
      cpuThreads : {1},
      cpuCores : {2},
      memoryPercent : {Frac(50)},
      reportInterval : {1},
      primeRange : -2 .. MaxCandidate,
      chunkSize : {1},
      targetMemory : {1} ]

InitPrime == config \in PrimeConfigs /\ Started

SpecPrime == InitPrime /\ [][NextCpu]_vars

\* the run with -disable-cpu and one chunk, observed from its start, or from the
\* top of the disk loop after 1 .. ReportEvery - 1 iterations that all succeeded
\* within the first clock unit (before the first report)
InitReport ==
    /\ config \in Configs
    /\ ~config.full /\ config.disableCPU /\ ~config.disableDisk
    /\ config.cpuThreads = 1 /\ config.cpuCores = 2 /\ config.memoryPercent = Frac(50)
    /\ config.chunkSize = 1 /\ config.targetMemory = 1
    /\ \/ Started
       \/ /\ now = 0
          /\ mainPc = "wait"
          /\ sigChan = 0
          /\ stopChan = "open"
          /\ wakeAt = 0
          /\ cpuStats = CpuStats0
          /\ cpu = [ w \in Workers |-> CpuLocal0 ]
          /\ \E done \in 1 .. (ReportEvery - 1) :
               /\ mem = [ MemLocal0 EXCEPT !.pc = "loopTop", !.allocated = 1, !.memoryChunks = 1,
                                           !.iteration = done, !.idx = 1,
                                           !.totalBytesWritten = 1, !.totalBytesRead = 1,
                                           !.writeSamples = done, !.readSamples = done ]
               /\ tempFile = [ File0 EXCEPT !.created = TRUE, !.exists = TRUE, !.open = TRUE,
                                            !.size = 1, !.pos = 1 ]
               /\ out = [ Out0 EXCEPT !.diskEntered = TRUE, !.wroteChunk = TRUE, !.iterBase = done ]

SpecReport == InitReport /\ [][NextDisk]_vars

\* ------------------------------------------------------------- claims
\* C1: in aggregate mode the report decision and the advance of cpuStats.lastReport
\* happen while the deciding worker holds cpuStats.mu, so any two aggregate reports
\* were decided at least one report interval apart, and after a duration `now` at
\* most now/interval + 1 reports have been decided or printed, however many workers run.
C1_NoDoubleReport ==
    /\ \A w \in Workers : cpu[w].pc \in {"update", "count", "stamp", "unlock"} => cpuStats.mu = w
    /\ \A i, j \in 1 .. Len(out.aggReports) :
           i < j => out.aggReports[j] - out.aggReports[i] >= config.reportInterval
    /\ Len(out.aggReports) <= (now \div config.reportInterval) + 1
    /\ out.aggPrinted <= Len(out.aggReports)

\* two workers, two reports so far, and a worker whose pass ended in the instant of
\* the last report was refused a second report for the interval
C1_Witness ==
    /\ config.cpuThreads = 2
    /\ Len(out.aggReports) >= 2
    /\ \E w \in Workers : cpu[w].pc = "unlock" /\ cpuStats.lastReport = now

\* C2: stopChan starts open, is closed exactly once, by main on the first
\* notification (wait -> sleep), by no worker, and is never reopened; a second
\* notification changes nothing of it and main never panics.
C2_WriteOnce ==
    [][ /\ (stopChan = "closed" => stopChan' = "closed")
        /\ (stopChan' # stopChan =>
               /\ stopChan = "open" /\ out.closes = 0
               /\ mainPc = "wait" /\ mainPc' = "sleep"
               /\ cpu' = cpu /\ mem' = mem)
        /\ (stopChan' = "closed" <=> out'.closes = 1)
        /\ out'.closes <= 1
        /\ mainPc' # "panic" ]_vars

\* a second notification is buffered after the signal was set, and the run has ended
C2_Witness == mainPc = "stopped" /\ sigChan = 1 /\ stopChan = "closed" /\ out.closes = 1

\* C3: a CPU worker looks at stopChan only at its select: with stopChan closed no
\* worker begins a pass, a pass in progress ends with its bookkeeping, a worker
\* returns only from the select and leaves cpuStats alone when it does; and every
\* worker has returned (or the process has ended) some time after the signal.
C3_CancelBetweenPasses ==
    /\ [][ \A w \in Workers :
             /\ (stopChan = "closed" => ~(cpu'[w].pc = "pass" /\ cpu[w].pc # "pass"))
             /\ (cpu[w].pc = "pass" /\ cpu'[w] # cpu[w] =>
                    /\ cpu'[w].pc \in {"lock", "fullReport"}
                    /\ cpu'[w].iteration = cpu[w].iteration + 1)
             /\ (cpu'[w].pc = "returned" /\ cpu[w].pc # "returned" =>
                    /\ cpu[w].pc = "select" /\ stopChan = "closed"
                    /\ cpuStats' = cpuStats) ]_vars
    /\ (stopChan = "closed" ~> (mainPc = "stopped" \/ \A w \in Workers : cpu[w].pc \in {"off", "returned"}))

\* the signal is set, one worker has returned and the other is still doing the
\* bookkeeping of the pass it was in
C3_Witness ==
    /\ stopChan = "closed"
    /\ cpu[0].pc = "returned"
    /\ cpu[1].pc = "update"

\* C4: with stopChan closed the memory/disk worker begins no chunk append, no chunk
\* write, no chunk read and no disk iteration, and it has returned (or the process
\* has ended) some time after the signal.
C4_ChunkGranularity ==
    /\ [][ stopChan = "closed" =>
             ~(mem'.pc # mem.pc /\ mem'.pc \in {"append", "write", "read", "rewind"}) ]_vars
    /\ (stopChan = "closed" ~> (mainPc = "stopped" \/ mem.pc \in {"off", "returned"}))

\* the signal was seen between two chunk writes and the worker has returned
C4_Witness ==
    /\ stopChan = "closed"
    /\ mem.pc = "returned"
    /\ out.leftAt = "writeLoop"
    /\ out.wroteChunk

\* C5: main returns exactly 2 time units after it closed stopChan: once the 2 units
\* have passed it can return whatever the workers are doing, and it sleeps no longer.
C5_GraceExact ==
    /\ (mainPc = "stopped" => out.exitTime - out.closeTime = 2)
    /\ (mainPc = "sleep" => now - out.closeTime <= 2)
    /\ (mainPc = "sleep" /\ now - out.closeTime = 2 => ENABLED MainExit)

\* main has returned while the CPU worker is in a pass and the disk worker in a file-system call
C5_Witness ==
    /\ mainPc = "stopped"
    /\ cpu[0].pc = "pass"
    /\ mem.pc \in {"write", "sync", "read"}

\* C6: once the scratch file is created, the loop having returned means the handle
\* is closed and the file removed, each by exactly one call, whichever return
\* statement ended the loop.
C6_CleanupOnReturn ==
    /\ out.closeCalls <= 1
    /\ out.removeCalls <= 1
    /\ (tempFile.created /\ mem.pc = "returned" =>
           /\ ~tempFile.open
           /\ ~tempFile.exists
           /\ out.closeCalls = 1
           /\ out.removeCalls = 1)

\* the loop returned on a failed random fill and the file is gone
C6_Witness ==
    /\ mem.pc = "returned"
    /\ out.leftAt = "fill"
    /\ tempFile.created /\ ~tempFile.exists

\* C7: when the process has stopped, a scratch file that was created has been removed.
C7_NoFileOutlivesRun == mainPc = "stopped" /\ tempFile.created => ~tempFile.exists

\* C8: after a filesystem error (seek, truncate, write, sync, read) the disk loop
\* writes no further chunk, syncs and reads nothing, folds no sample and starts no iteration.
C8_ErrorIsFatal ==
    [][ out.diskError # "none" =>
          /\ ~(mem'.pc # mem.pc /\ mem'.pc \in {"write", "sync", "read", "rewind"})
          /\ mem'.writeSamples <= mem.writeSamples
          /\ mem'.readSamples <= mem.readSamples
          /\ mem'.iteration <= mem.iteration ]_vars

\* C9 as stated: the signal set while allocated < targetMemory means the disk loop
\* is never entered, no scratch file is created and no chunk is written.
C9_Original ==
    out.stopBeforeTarget => ~out.diskEntered /\ ~tempFile.created /\ ~out.wroteChunk

\* C9 amended: the allocator that finds stopChan closed at its check before an
\* append returns without calling filesystemBenchmark (no scratch file, no chunk
\* written); a signal set while allocated < targetMemory, seen or not, is followed
\* by no disk iteration and no chunk write.
C9_Amended ==
    [][ /\ (mem.pc = "alloc" /\ mem.allocated < config.targetMemory /\ stopChan = "closed" /\ mem' # mem =>
               mem'.pc = "returned" /\ tempFile' = tempFile /\ out' = out)
        /\ (mem'.pc = "returned" /\ ~out'.diskEntered =>
               stopChan' = "closed" /\ ~tempFile'.created /\ ~out'.wroteChunk)
        /\ (out'.stopBeforeTarget => ~out'.wroteChunk /\ mem'.iteration = 0) ]_vars

\* the allocator returned on the signal with some chunks allocated and the target not reached
C9_Witness ==
    /\ mem.pc = "returned"
    /\ ~out.diskEntered
    /\ mem.allocated > 0
    /\ mem.allocated < config.targetMemory

\* C10: the step in which the disk loop meets a filesystem error changes neither
\* stopChan nor cpuStats nor any CPU worker nor main; after the loop has ended on
\* such an error and until the signal, main is still waiting and every CPU worker
\* that was started is still running.
C10_DiskErrorIsLocal ==
    [][ /\ (out'.diskError # out.diskError =>
               stopChan' = stopChan /\ cpuStats' = cpuStats /\ cpu' = cpu /\ mainPc' = mainPc)
        /\ (out'.leftAt \in {"seek", "truncate", "sync"} /\ stopChan' = "open" =>
               /\ mainPc' = "wait"
               /\ \A w \in Workers :
                      w < config.cpuThreads => cpu'[w].pc \notin {"off", "returned"}) ]_vars

\* the disk loop has ended on a failed sync, the signal is not set and the CPU
\* worker is printing an aggregate report
C10_Witness ==
    /\ out.leftAt = "sync"
    /\ mem.pc = "returned"
    /\ stopChan = "open"
    /\ cpu[0].pc = "print"

\* C11: a disk iteration that reaches the end of its read phase with the signal
\* not set and no failed file-system call has written memoryChunks * chunkSize
\* bytes, the file holds exactly those bytes, and the read phase has read as many.
C11_RoundTrip ==
    mem.pc = "foldRead" /\ stopChan = "open" /\ ~out.iterFault =>
        /\ mem.totalBytesWritten = mem.memoryChunks * config.chunkSize
        /\ tempFile.size = mem.totalBytesWritten
        /\ mem.totalBytesRead = mem.totalBytesWritten

\* the second iteration over two chunks has read back all it wrote
C11_Witness ==
    /\ mem.pc = "foldRead" /\ stopChan = "open" /\ ~out.iterFault
    /\ mem.iteration = 2
    /\ mem.memoryChunks = 2
    /\ mem.totalBytesRead = 2 * config.chunkSize

\* C12: with -disable-cpu no CPU worker ever leaves "off" and cpuStats keeps its
\* initial value; with -disable-disk the memory/disk worker never runs, no chunk is
\* allocated and no scratch file is created; a resource that is not disabled has
\* its worker started once main waits; and in every combination main waits with
\* stopChan open, can receive a buffered notification, and after the close can
\* return once the grace period is over.
C12_LaunchPerResource ==
    /\ (config.disableCPU => cpuStats = CpuStats0 /\ \A w \in Workers : cpu[w] = CpuLocal0)
    /\ (config.disableDisk => mem = MemLocal0 /\ tempFile = File0 /\ ~out.diskEntered)
    /\ (mainPc \in {"wait", "sleep", "stopped"} =>
           /\ (~config.disableCPU => cpu[0].pc # "off")
           /\ (~config.disableDisk => mem.pc # "off"))
    /\ (mainPc \in {"validate", "resolve", "launch", "wait"} => stopChan = "open" /\ out.closes = 0)
    /\ (mainPc = "wait" /\ sigChan > 0 => ENABLED MainDrain)
    /\ (mainPc \in {"sleep", "stopped"} => stopChan = "closed" /\ out.closes = 1)
    /\ (mainPc = "sleep" /\ now >= wakeAt => ENABLED MainExit)

\* the run with -disable-cpu has written a chunk to disk and has ended after the drain
C12_Witness ==
    /\ config.disableCPU /\ ~config.disableDisk
    /\ mainPc = "stopped"
    /\ out.wroteChunk

\* C13: main goes past the validation exactly when memoryPercent is a number in
\* [0.1, 0.95]; otherwise the process has exited with no notification buffered
\* and no worker started.
C13_FractionValidated ==
    /\ (mainPc \notin {"validate", "exited"} =>
           /\ ~config.memoryPercent.nan
           /\ config.memoryPercent.val >= 10 /\ config.memoryPercent.val <= 95)
    /\ (mainPc = "exited" =>
           /\ (config.memoryPercent.nan
                  \/ config.memoryPercent.val < 10 \/ config.memoryPercent.val > 95)
           /\ sigChan = 0
           /\ mem = MemLocal0
           /\ \A w \in Workers : cpu[w] = CpuLocal0)

\* C14: once main has resolved the worker count, it is max(1, cores - 1) when 0
\* was requested and the requested count otherwise; and once main waits, the CPU
\* workers started are exactly those with the identities 0 .. count - 1.
C14_WorkerCount ==
    /\ (mainPc \in {"launch", "wait", "sleep", "stopped"} =>
           config.cpuThreads =
               IF out.requested # 0 THEN out.requested
               ELSE IF config.cpuCores - 1 > 1 THEN config.cpuCores - 1 ELSE 1)
    /\ (mainPc \in {"wait", "sleep", "stopped"} =>
           /\ { w \in Workers : cpu[w].pc # "off" } = 0 .. (config.cpuThreads - 1)
           /\ Cardinality({ w \in Workers : cpu[w].pc # "off" }) = config.cpuThreads)

\* no count requested on three cores: two workers, 0 and 1, are both in a pass
C14_Witness ==
    /\ out.requested = 0 /\ config.cpuCores = 3 /\ config.cpuThreads = 2
    /\ cpu[0].pc = "pass" /\ cpu[1].pc = "pass"

\* C15: for every k from -MaxCandidate to MaxCandidate, isPrime(k) holds exactly
\* when k >= 2 and no d in 2 .. k-1 divides k: it is false below 2, true for 2,
\* false for the other even numbers, and for odd k >= 3 true exactly when no odd i
\* from 3 with i*i <= k divides k; and the count a pass leaves in primeCount is
\* the number of primes in [2, primeRange).
C15_IsPrimeCorrect ==
    /\ \A k \in -MaxCandidate .. MaxCandidate :
           /\ isPrime(k) = (k >= 2 /\ \A d \in 2 .. (k - 1) : k % d # 0)
           /\ (k < 2 => ~isPrime(k))
           /\ (k = 2 => isPrime(k))
           /\ (k > 2 /\ k % 2 = 0 => ~isPrime(k))
           /\ (k >= 3 /\ k % 2 = 1 =>
                  isPrime(k) = (\A i \in 3 .. k : i % 2 = 1 /\ i * i <= k => k % i # 0))
    /\ \A w \in Workers :
           cpu[w].pc \in {"lock", "update", "count", "stamp", "print", "unlock", "fullReport"} =>
               cpu[w].primeCount =
                   Cardinality({ k \in 2 .. (config.primeRange - 1) :
                                   \A d \in 2 .. (k - 1) : k % d # 0 })

\* a pass over [2, 30) has counted the ten primes 2, 3, 5, 7, 11, 13, 17, 19, 23, 29
C15_Witness ==
    /\ config.primeRange = 30
    /\ cpu[0].pc = "fullReport"
    /\ cpu[0].primeCount = 10

\* C16: at most one CPU worker is between Lock() and Unlock(), it is the holder of
\* cpuStats.mu, and cpuStats changes only in a step of the worker that takes or
\* holds the mutex; so whenever a worker enters, as many passes have been added to
\* totalTime as to totalPrimesFound, and totalPrimesFound is the count of those passes.
C16_OneCriticalSection ==
    [][ /\ \A w, v \in Workers :
               /\ cpu'[w].pc \in {"update", "count", "stamp", "unlock"}
               /\ cpu'[v].pc \in {"update", "count", "stamp", "unlock"}
               => w = v
        /\ \A w \in Workers :
               cpu'[w].pc \in {"update", "count", "stamp", "unlock"} <=> cpuStats'.mu = w
        /\ (cpuStats' # cpuStats =>
               \E w \in Workers :
                   /\ cpu'[w] # cpu[w]
                   /\ cpu[w].pc \in {"lock", "update", "count", "stamp", "unlock"}
                   /\ \A v \in Workers \ {w} : cpu'[v] = cpu[v])
        /\ \A w \in Workers :
               cpu[w].pc = "lock" /\ cpu'[w].pc = "update" =>
                   /\ out.timeFolds = out.primeFolds
                   /\ cpuStats.totalPrimesFound = out.primeFolds * PrimePass(2, config.primeRange) ]_vars

\* a worker is between its two additions while the other worker waits for the lock
C16_Witness ==
    /\ cpu[0].pc = "count"
    /\ cpu[1].pc = "lock"
    /\ out.timeFolds = out.primeFolds + 1
    /\ out.primeFolds > 0

\* C17: no step, of any worker in any interleaving, decreases cpuStats.totalPrimesFound
\* or cpuStats.totalTime or moves cpuStats.lastReport backwards.
C17_StatsMonotonic ==
    [][ /\ cpuStats'.totalPrimesFound >= cpuStats.totalPrimesFound
        /\ cpuStats'.totalTime >= cpuStats.totalTime
        /\ cpuStats'.lastReport >= cpuStats.lastReport ]_vars

\* two workers have added passes of non-zero duration and the timestamp has advanced twice
C17_Witness ==
    /\ config.cpuThreads = 2
    /\ cpuStats.totalPrimesFound >= 3 * PrimePass(2, config.primeRange)
    /\ cpuStats.totalTime >= 3
    /\ cpuStats.lastReport >= 2
    /\ Len(out.aggReports) >= 2

\* C18: the allocator appends only after a check that found stopChan open, and
\* calls filesystemBenchmark at most once, with k chunks of chunkSize where k is
\* the least number with k * chunkSize >= targetMemory (so targetMemory <=
\* allocated < targetMemory + chunkSize); while the disk loop runs the chunks do
\* not change and the allocator does not run again; and as long as the signal is
\* not set the allocator ends with that call.
C18_AllocateToTarget ==
    /\ [][ /\ (mem'.pc = "append" /\ mem.pc # "append" => mem.pc = "alloc" /\ stopChan = "open")
           /\ (out'.diskEntered /\ ~out.diskEntered =>
                  /\ mem.pc = "alloc" /\ mem'.pc = "fsStart"
                  /\ mem'.allocated = mem'.memoryChunks * config.chunkSize
                  /\ mem'.memoryChunks * config.chunkSize >= config.targetMemory
                  /\ (mem'.memoryChunks - 1) * config.chunkSize < config.targetMemory
                  /\ mem'.allocated < config.targetMemory + config.chunkSize)
           /\ (out.diskEntered =>
                  /\ mem'.pc \notin {"start", "alloc", "append"}
                  /\ (mem'.pc # "returned" =>
                         /\ mem'.memoryChunks = mem.memoryChunks
                         /\ mem'.allocated = mem.allocated)) ]_vars
    /\ (mem.pc \in {"start", "alloc", "append"} ~> (out.diskEntered \/ stopChan = "closed"))

\* a target of 1 unit in chunks of 2: one chunk, 2 units, was handed to the disk loop
C18_Witness ==
    /\ config.chunkSize = 2 /\ config.targetMemory = 1
    /\ out.diskEntered /\ stopChan = "open"
    /\ mem.pc = "loopTop"
    /\ mem.memoryChunks = 1 /\ mem.allocated = 2

\* C19 as stated: in detailed mode no worker takes the lock and cpuStats is never
\* modified; in aggregate mode no loop-local accumulator receives a sample.
C19_Original ==
    /\ (config.full =>
           /\ cpuStats = CpuStats0
           /\ \A w \in Workers : cpu[w].pc \notin {"lock", "update", "count", "stamp", "unlock", "print"})
    /\ (~config.full => \A w \in Workers : cpu[w].totalTime = 0)

\* C19 amended: in detailed mode no worker takes the lock and cpuStats is never
\* modified; in aggregate mode every pass is followed by the lock and its
\* duration and count are added to cpuStats, and the worker makes no report of
\* its own (its lastReport stays as set at the start); the loop-local totalTime
\* receives the duration of every pass in both modes.
C19_Amended ==
    [][ \A w \in Workers :
          /\ (config.full =>
                 /\ cpuStats' = CpuStats0
                 /\ cpu'[w].pc \notin {"lock", "update", "count", "stamp", "unlock", "print"})
          /\ (~config.full =>
                 /\ cpu'[w].pc # "fullReport"
                 /\ (cpu[w].pc = "pass" /\ cpu'[w] # cpu[w] => cpu'[w].pc = "lock")
                 /\ (cpu[w].pc = "update" /\ cpu'[w] # cpu[w] =>
                        cpuStats'.totalTime = cpuStats.totalTime + cpu[w].duration)
                 /\ (cpu[w].pc = "count" /\ cpu'[w] # cpu[w] =>
                        cpuStats'.totalPrimesFound = cpuStats.totalPrimesFound + cpu[w].primeCount)
                 /\ (cpu[w].pc \notin {"off", "start"} /\ cpu'[w].pc # "returned" =>
                        cpu'[w].lastReport = cpu[w].lastReport))
          /\ (cpu[w].pc = "pass" /\ cpu'[w] # cpu[w] =>
                 /\ cpu'[w].duration = now - cpu[w].start
                 /\ cpu'[w].totalTime = cpu[w].totalTime + cpu'[w].duration) ]_vars

\* aggregate mode: the duration of a pass is in the shared total and in the
\* worker's own totalTime
C19_Witness ==
    /\ ~config.full
    /\ cpu[0].pc = "count"
    /\ cpu[0].duration > 0
    /\ cpu[0].totalTime >= cpu[0].duration
    /\ cpuStats.totalTime >= cpu[0].duration

\* C20: the rate a worker computes for an aggregate report is
\* totalPrimesFound * cpuThreads / totalTime with the totals as they are in
\* cpuStats while the worker still holds the lock after adding its own pass (all
\* passes added so far, its own included), whatever the number of workers that
\* have contributed; and the line printed carries that rate.
C20_AggregateRate ==
    [][ \A w \in Workers :
          /\ (cpu[w].pc = "stamp" /\ cpu'[w].pc = "print" =>
                 /\ cpuStats.mu = w
                 /\ out.timeFolds = out.primeFolds
                 /\ cpu'[w].rate.num =
                        out.primeFolds * PrimePass(2, config.primeRange) * config.cpuThreads
                 /\ cpu'[w].rate.num = cpuStats.totalPrimesFound * config.cpuThreads
                 /\ cpu'[w].rate.den = cpuStats.totalTime
                 /\ cpuStats.totalPrimesFound >= cpu[w].primeCount
                 /\ cpuStats.totalTime >= cpu[w].duration)
          /\ (cpu[w].pc = "print" /\ cpu'[w].pc # "print" =>
                 /\ out'.aggPrinted = out.aggPrinted + 1
                 /\ out'.lastRate = cpu[w].rate) ]_vars

\* two workers configured, only worker 0 has added a pass: the line printed has
\* the rate of that one pass times 2
C20_Witness ==
    /\ config.cpuThreads = 2
    /\ out.aggPrinted = 1
    /\ out.primeFolds = 1
    /\ cpu[1].pc = "pass" /\ cpu[1].iteration = 0
    /\ out.lastRate = [ num |-> 2 * PrimePass(2, config.primeRange), den |-> 1 ]

\* C21: the end of a disk iteration prints a report exactly when the time since
\* lastReport is at least the report interval or the iteration count is a
\* multiple of 5; a report sets lastReport to the current time, whichever of the
\* two fired, and without a report lastReport is unchanged.
C21_DiskReportTriggers ==
    [][ mem.pc = "foldRead" /\ mem'.pc = "loopTop" =>
          /\ out'.diskReported <=>
                 (now - mem.lastReport >= config.reportInterval \/ mem.iteration % 5 = 0)
          /\ (out'.diskReported => mem'.lastReport = now)
          /\ (~out'.diskReported => mem'.lastReport = mem.lastReport) ]_vars

\* the fifth iteration has ended within the report interval and has printed a report
C21_Witness ==
    /\ mem.pc = "loopTop"
    /\ mem.iteration = 5
    /\ now < config.reportInterval
    /\ out.diskReported

\* C22: the disk worker goes through an iteration in the order rewind/truncate,
\* chunk writes, sync (with the rewind for reading), reads, fold: each phase is
\* entered only from the one before it, the sync only after every chunk has had
\* its write, the reads of iteration i only after the sync of iteration i has
\* succeeded and the file is rewound, and the writes of the next iteration only
\* after the read phase of iteration i has ended and its sample is folded.
C22_PhaseOrder ==
    [][ /\ (mem'.pc # mem.pc =>
               /\ (mem'.pc = "rewind" => mem.pc = "loopTop")
               /\ (mem'.pc = "writeLoop" => mem.pc \in {"rewind", "write"})
               /\ (mem'.pc = "write" => mem.pc = "writeLoop")
               /\ (mem'.pc = "sync" => mem.pc = "writeLoop" /\ mem.idx = mem.memoryChunks)
               /\ (mem'.pc = "readLoop" => mem.pc \in {"sync", "read"})
               /\ (mem.pc = "sync" /\ mem'.pc = "readLoop" =>
                      tempFile'.pos = 0 /\ mem'.totalBytesRead = 0)
               /\ (mem'.pc = "read" => mem.pc = "readLoop")
               /\ (mem'.pc = "foldRead" => mem.pc \in {"readLoop", "read"})
               /\ (mem'.pc = "loopTop" => mem.pc \in {"fsStart", "foldRead"}))
        /\ (mem'.pc \in {"rewind", "writeLoop", "write", "sync"} =>
               /\ mem'.writeSamples = mem'.iteration - 1
               /\ mem'.readSamples = mem'.iteration - 1)
        /\ (mem'.pc \in {"readLoop", "read", "foldRead"} =>
               /\ mem'.writeSamples = mem'.iteration
               /\ mem'.readSamples = mem'.iteration - 1)
        /\ (mem'.pc = "loopTop" =>
               /\ mem'.writeSamples = mem'.iteration
               /\ mem'.readSamples = mem'.iteration) ]_vars

\* the second iteration is reading: both its writes and its sync are done, the
\* read sample of the first iteration is folded and its own is not
C22_Witness ==
    /\ mem.pc = "read"
    /\ mem.iteration = 2
    /\ mem.memoryChunks = 2 /\ mem.idx = 2
    /\ mem.writeSamples = 2 /\ mem.readSamples = 1
    /\ mem.totalBytesRead > 0

\* C23: a worker holds cpuStats.mu only between its Lock() and the Unlock() of the
\* branch it takes: every Lock() that returned is matched by exactly one
\* Unlock(), made by the holder on the reporting branch (before the print) or on
\* the other branch (before the select); no worker that prints, is at its select,
\* runs a pass or has returned holds the mutex; and a worker waiting in Lock()
\* gets the mutex (or the process has ended).
C23_LockReleased ==
    /\ [][ /\ out'.lockCalls = out'.unlockCalls + (IF cpuStats'.mu = NoHolder THEN 0 ELSE 1)
           /\ \A w \in Workers :
                  /\ (cpu'[w].pc \in {"off", "start", "select", "pass", "lock", "print",
                                      "fullReport", "returned"} => cpuStats'.mu # w)
                  /\ (cpuStats.mu = w /\ cpuStats'.mu # w =>
                         /\ cpuStats'.mu = NoHolder
                         /\ out'.unlockCalls = out.unlockCalls + 1
                         /\ \/ cpu[w].pc = "stamp" /\ cpu'[w].pc = "print"
                            \/ cpu[w].pc = "unlock" /\ cpu'[w].pc = "select")
                  /\ (cpu[w].pc = "count" /\ cpu'[w] # cpu[w] =>
                         cpu'[w].pc \in {"stamp", "unlock"} /\ cpuStats'.mu = w) ]_vars
    /\ \A w \in Workers : cpu[w].pc = "lock" ~> (cpu[w].pc # "lock" \/ mainPc = "stopped")

\* worker 0 prints its report, the mutex already released, while worker 1 holds it
C23_Witness ==
    /\ cpu[0].pc = "print"
    /\ cpu[1].pc = "update"
    /\ cpuStats.mu = 1
    /\ out.lockCalls = out.unlockCalls + 1
    /\ out.unlockCalls >= 2

====
